---- MODULE Spec2Model ----
(***************************************************************************)
(* brother_pt: driver of a Brother P-touch label printer over USB.         *)
(*                                                                         *)
(* The model follows one BrotherPt object (src/brother_pt/printer.py): its *)
(* four cached status fields, the position of the request it is running,   *)
(* the accumulator of __write, and what the USB transport has accepted and *)
(* returned during the current request.  Bytes are naturals 0..255 and     *)
(* byte strings are sequences of them; Python offsets are 0-based, so the  *)
(* byte at offset k of b is b[k + 1].                                      *)
(***************************************************************************)
EXTENDS Integers, Sequences, FiniteSets, TLC

VARIABLES
    media_width,    \* self._media_width  (None until a status was parsed)
    media_type,     \* self._media_type
    tape_color,     \* self._tape_color
    text_color,     \* self._text_color
    op,             \* the public request being run
    pc,             \* the program point of that request
    length,         \* the local `length` of the running __write
    ci,             \* index of the command print_data is writing
    data,           \* the `data` argument of print_data (rasterized bytes)
    margin_px,      \* the `margin_px` argument of the request
    image,          \* the `image` argument of print_image
    err,            \* the exception that ended the request, or NoError
    wire,           \* transport: bytes accepted since the request began
    sent,           \* buffers whose __write has returned in this request
    pdBase,         \* Len(sent) when print_data was entered
    lastWrite,      \* transport: the last write call (offset, offered, accepted)
    rlog,           \* transport: what each read of this request returned
    rdBase,         \* Len(rlog) when print_data was entered
    rotate,         \* the --rotate argument of do_print
    call,           \* a call of one of the pure functions: its name and arguments
    ret             \* what that call returned

vars == << media_width, media_type, tape_color, text_color, op, pc, length, ci,
           data, margin_px, image, err, wire, sent, pdBase, lastWrite, rlog,
           rdBase, rotate, call, ret >>

\* the variables of a call of a pure function of cmd.py or raster.py
fnvars == << call, ret >>

status == << media_width, media_type, tape_color, text_color >>

-----------------------------------------------------------------------------
(* Bounds of the model                                                     *)

\* reads that do not end a read loop which the transport returns per request
MaxReads == 3

-----------------------------------------------------------------------------
(* Constants of cmd.py and printer.py                                      *)

PRINT_HEAD_PINS == 128
LINE_LENGTH_BYTES == 16
MINIMUM_TAPE_POINTS == 174
STATUS_MESSAGE_LENGTH == 32
POLL_READ_LENGTH == 128
PACKET_SIZE == 64

\* class StatusOffsets
MEDIA_WIDTH == 10
MEDIA_TYPE == 11
STATUS_TYPE == 18
TAPE_COLOR_INFORMATION == 24
TEXT_COLOR_INFORMATION == 25

\* class StatusType
PRINTING_COMPLETED == 1
ERROR_OCCURRED == 2
PHASE_CHANGE == 6

\* class MediaType
MediaType == {0, 1, 3, 17, 255}
NO_MEDIA == 0
INCOMPATIBLE_TAPE == 255

\* class TapeColor
TapeColor == {1, 2, 3, 4, 5, 6, 7, 8, 9, 32, 33, 34, 35, 36, 48, 49, 64, 65,
              80, 81, 82, 96, 97, 98, 112, 144, 145, 240, 241, 255}

\* class TextColor
TextColor == {1, 2, 4, 5, 8, 10, 98, 240, 241, 255}

\* Python's None in a status field (a status byte is 0..255)
None == -1

\* Python's None where an image is expected
NoImage == [width |-> 0, height |-> 0, mode |-> "", pat |-> "", rot |-> 0]

\* exceptions: the class, what it is about and the value it names
Exception(kind, what, value) == [kind |-> kind, what |-> what, value |-> value]
NoError == Exception("none", "", 0)

-----------------------------------------------------------------------------
(* Byte strings                                                            *)

Min(a, b) == IF a < b THEN a ELSE b

Zeros(n) == [i \in 1..n |-> 0]

\* Python's b[i:j] for 0 <= i
Slice(b, i, j) == SubSeq(b, i + 1, Min(j, Len(b)))

\* int.to_bytes(n, 'little'); the value must fit (Python raises OverflowError)
ToBytesLE(v, n) == [i \in 1..n |-> (v \div (256 ^ (i - 1))) % 256]

RECURSIVE Flatten(_)
Flatten(ss) == IF ss = << >> THEN << >> ELSE Head(ss) \o Flatten(Tail(ss))

IsPrefix(p, s) == Len(p) <= Len(s) /\ SubSeq(s, 1, Len(p)) = p

-----------------------------------------------------------------------------
(* cmd.py: the command encoder                                             *)

invalidate == Zeros(100)

initialize == << 27, 64 >>

enter_dynamic_command_mode == << 27, 105, 97, 1 >>

enable_status_notification == << 27, 105, 33, 0 >>

print_information(d) ==
    << 27, 105, 122, 132, 0, 24, 0 >> \o ToBytesLE(Len(d) \div 16, 4) \o << 0, 0 >>

\* set_mode() is only called with its default, Mode.AUTO_CUT = 0x40
set_mode == << 27, 105, 77, 64 >>

set_advanced_mode == << 27, 105, 75, 8 >>

margin_amount(dots) == << 27, 105, 100 >> \o ToBytesLE(dots, 2)

set_compression_mode == << 77, 2 >>

print_with_feeding == << 26 >>

status_information_request == << 27, 105, 83 >>

-----------------------------------------------------------------------------
(* packbits.encode, the library cmd.py compresses a line with.  pos is the *)
(* 0-based read position, st the encoder state, buf the pending literal    *)
(* bytes, rc the repeat count and res the output so far.                   *)

PB_MAX_LENGTH == 127

finish_raw(buf) == IF buf = << >> THEN << >> ELSE << Len(buf) - 1 >> \o buf

finish_rle(rc, byte) == << 256 - (rc - 1), byte >>

RECURSIVE PackLoop(_, _, _, _, _, _)
PackLoop(d, pos, st, buf, rc, res) ==
    IF pos < Len(d) - 1
    THEN IF d[pos + 1] = d[pos + 2]
         THEN IF st = "RAW"
              THEN PackLoop(d, pos + 1, "RLE", << >>, 1, res \o finish_raw(buf))
              ELSE IF rc = PB_MAX_LENGTH
                   THEN PackLoop(d, pos + 1, "RLE", buf, 1,
                                 res \o finish_rle(rc, d[pos + 1]))
                   ELSE PackLoop(d, pos + 1, "RLE", buf, rc + 1, res)
         ELSE IF st = "RLE"
              THEN PackLoop(d, pos + 1, "RAW", buf, 0,
                            res \o finish_rle(rc + 1, d[pos + 1]))
              ELSE IF Len(buf) = PB_MAX_LENGTH
                   THEN PackLoop(d, pos + 1, "RAW", << d[pos + 1] >>, rc,
                                 res \o finish_raw(buf))
                   ELSE PackLoop(d, pos + 1, "RAW", Append(buf, d[pos + 1]), rc, res)
    ELSE IF st = "RAW"
         THEN res \o finish_raw(Append(buf, d[pos + 1]))
         ELSE res \o finish_rle(rc + 1, d[pos + 1])

packbits_encode(d) ==
    IF Len(d) = 0 THEN d
    ELSE IF Len(d) = 1 THEN << 0 >> \o d
    ELSE PackLoop(d, 0, "RAW", << >>, 0, << >>)

-----------------------------------------------------------------------------
(* cmd.py: gen_raster_commands                                             *)

raster_cmd == << 71 >>
zero_cmd == << 90 >>

line_command_never_zero(line) ==
    raster_cmd \o ToBytesLE(Len(packbits_encode(line)), 2) \o packbits_encode(line)

line_command_unpacked(line) ==
    IF line = Zeros(LINE_LENGTH_BYTES)
    THEN zero_cmd
    ELSE raster_cmd \o ToBytesLE(Len(packbits_encode(line)), 2) \o line

line_command_line_length(line) ==
    IF line = Zeros(LINE_LENGTH_BYTES)
    THEN zero_cmd
    ELSE raster_cmd \o ToBytesLE(Len(line), 2) \o packbits_encode(line)

\* the command of one line: lines 224-232
line_command(line) ==
    IF line = Zeros(LINE_LENGTH_BYTES)
    THEN zero_cmd
    ELSE raster_cmd \o ToBytesLE(Len(packbits_encode(line)), 2) \o packbits_encode(line)

\* range(0, len(rasterized_image), LINE_LENGTH_BYTES)
LineStarts(d) == (Len(d) + LINE_LENGTH_BYTES - 1) \div LINE_LENGTH_BYTES

gen_raster_commands(d) ==
    [k \in 1..LineStarts(d) |->
        line_command(Slice(d, (k - 1) * LINE_LENGTH_BYTES, k * LINE_LENGTH_BYTES))]

-----------------------------------------------------------------------------
(* cmd.py: MediaWidthToTapeMargin;  raster.py: the raster encoder          *)

TapeWidths == {4, 6, 9, 12, 18, 24}

margin(w) ==
    CASE w = 4 -> 52 [] w = 6 -> 48 [] w = 9 -> 39
      [] w = 12 -> 29 [] w = 18 -> 8 [] w = 24 -> 0

to_print_width_one_margin(tape_width) == PRINT_HEAD_PINS - margin(tape_width)

\* margin[tape_width] raises KeyError for a width that is no key of margin
to_print_width(tape_width) == PRINT_HEAD_PINS - margin(tape_width) * 2

(* An image is its size, its mode, the pattern of its ink pixels and the   *)
(* quarter turns applied to it.  Ink(pat, x, y) is the pixel of the        *)
(* unrotated picture.                                                      *)
Ink(pat, x, y) ==
    CASE pat = "blank"   -> FALSE
      [] pat = "full"    -> TRUE
      [] pat = "checker" -> (x + y) % 2 = 1
      [] pat = "left"    -> x = 0
      [] pat = "top"     -> y = 0

\* Image.transpose(Image.ROTATE_90): (w, h) becomes (h, w), counter-clockwise
transpose_rotate_90(img) ==
    [img EXCEPT !.width = img.height, !.height = img.width, !.rot = 90]

getpixel(img, column, row) ==
    IF img.rot = 0
    THEN Ink(img.pat, column, row)
    ELSE Ink(img.pat, img.height - 1 - row, column)

make_fit_unturned(img, mw) ==
    IF img.height # to_print_width(mw) /\ img.width # to_print_width(mw)
    THEN NoImage
    ELSE img

make_fit(img, mw) ==
    IF img.height # to_print_width(mw)
    THEN IF img.width # to_print_width(mw)
         THEN NoImage
         ELSE transpose_rotate_90(img)
    ELSE img

SupportedModes == {"1", "L", "RGB", "RGBA"}

\* one byte per print-head pin, column after column: raster.py lines 76-89
raster_template(img, mw) ==
    Flatten([c \in 1..img.width |->
        Zeros(margin(mw))
        \o [r \in 1..img.height |-> IF getpixel(img, c - 1, r - 1) THEN 255 ELSE 0]
        \o Zeros(margin(mw))])

compress_buffer_lsb_first(buffer) ==
    [k \in 1..(Len(buffer) \div 8) |->
        LET bit(j) == IF buffer[(k - 1) * 8 + j + 1] > 0 THEN 2 ^ j ELSE 0
        IN  bit(0) + bit(1) + bit(2) + bit(3) + bit(4) + bit(5) + bit(6) + bit(7)]

\* eight bytes to one, most significant bit first
compress_buffer(buffer) ==
    [k \in 1..(Len(buffer) \div 8) |->
        LET bit(j) == IF buffer[(k - 1) * 8 + j + 1] > 0 THEN 2 ^ (7 - j) ELSE 0
        IN  bit(0) + bit(1) + bit(2) + bit(3) + bit(4) + bit(5) + bit(6) + bit(7)]

\* prepare_image and raster_image of the raster encoder
prepare_error(img, mw) ==
    IF mw \notin TapeWidths THEN Exception("KeyError", "margin", mw)
    ELSE IF make_fit(img, mw) = NoImage THEN Exception("AttributeError", "NoFit", 0)
    ELSE IF img.mode \notin SupportedModes
         THEN Exception("AttributeError", "UnsupportedColorSpace", 0)
    ELSE NoError

prepare_image(img, mw) == make_fit(img, mw)

raster_image(img, mw) == compress_buffer(raster_template(img, mw))

-----------------------------------------------------------------------------
(* What the callers and the device may supply                              *)

Images ==
    { [width |-> 2,  height |-> 70,  mode |-> "1",    pat |-> "checker", rot |-> 0],
      [width |-> 70, height |-> 2,   mode |-> "L",    pat |-> "left",    rot |-> 0],
      [width |-> 1,  height |-> 128, mode |-> "1",    pat |-> "blank",   rot |-> 0],
      [width |-> 3,  height |-> 5,   mode |-> "1",    pat |-> "full",    rot |-> 0],
      [width |-> 1,  height |-> 70,  mode |-> "CMYK", pat |-> "full",    rot |-> 0] }

Margins == {0, 300}

RasterInputs ==
    { << >>,
      Zeros(16),
      << 1, 1, 1, 2, 3, 3, 4, 0, 0, 0, 0, 0, 0, 0, 0, 5 >>,
      Zeros(16) \o << 1, 2, 3, 4 >> }

\* a status message of n bytes: print-head mark, size, then the fields
StatusMessage(n, mw, mt, st, tc, xc) ==
    [i \in 1..n |->
        CASE i = 1 -> 128
          [] i = 2 -> 32
          [] i = MEDIA_WIDTH + 1 -> mw
          [] i = MEDIA_TYPE + 1 -> mt
          [] i = STATUS_TYPE + 1 -> st
          [] i = TAPE_COLOR_INFORMATION + 1 -> tc
          [] i = TEXT_COLOR_INFORMATION + 1 -> xc
          [] OTHER -> 0]

\* what the device may answer to a status request
StatusReplies ==
    { << >>,
      StatusMessage(32, 12, 1, 0, 1, 8),       \* 12mm laminated, black on white
      StatusMessage(32, 24, 3, 0, 4, 1),       \* 24mm non-laminated, white on red
      StatusMessage(32, 0, 0, 0, 1, 8),        \* no media, no width
      StatusMessage(32, 12, 0, 0, 1, 8),       \* media type "no media"
      StatusMessage(32, 12, 255, 0, 255, 255), \* incompatible tape
      StatusMessage(32, 12, 2, 0, 1, 8),       \* media type outside MediaType
      StatusMessage(32, 12, 1, 0, 153, 8),     \* tape colour outside TapeColor
      StatusMessage(32, 24, 3, 0, 4, 153),     \* text colour outside TextColor
      StatusMessage(26, 24, 3, 0, 4, 1),       \* 26 bytes: every field present
      StatusMessage(20, 24, 3, 0, 4, 1),       \* 20 bytes: no colour bytes
      StatusMessage(11, 24, 3, 0, 4, 1),       \* 11 bytes: media width only
      StatusMessage(5, 24, 3, 0, 4, 1) }       \* 5 bytes: no field

\* what the device may push while the session waits for completion
PollReplies ==
    { << >>,
      StatusMessage(32, 12, 1, PRINTING_COMPLETED, 1, 8),
      StatusMessage(32, 12, 1, ERROR_OCCURRED, 1, 8),
      StatusMessage(10, 12, 1, PRINTING_COMPLETED, 1, 8) }

\* what the device may send after "printing completed"
AbsorbReplies ==
    { << >>,
      StatusMessage(32, 12, 1, PHASE_CHANGE, 1, 8) }

\* dev.write returns how many bytes of the offered chunk it took
Accepts(n) == {0, (n + 1) \div 2, n}

NoWrite == [offset |-> 0, offered |-> << >>, accepted |-> 0]

\* no pure function is being called, and none has returned
NoCall == [fn |-> "", w |-> 0, img |-> NoImage, d |-> << >>]
NoReturn == [done |-> FALSE, n |-> 0, img |-> NoImage, d |-> << >>, cmds |-> << >>]

-----------------------------------------------------------------------------
(* printer.py: the session                                                 *)

IoWriteTimeout == Exception("RuntimeError", "IO timeout while writing to printer", 0)
IoReadTimeout == Exception("RuntimeError", "IO timeout while reading from printer", 0)

Idle == pc \in {"done", "error"}

Init ==
    /\ media_width = None /\ media_type = None
    /\ tape_color = None /\ text_color = None
    /\ op = "init" /\ pc = "us_invalidate"
    /\ length = 0 /\ ci = 0
    /\ data = << >> /\ margin_px = 0 /\ image = NoImage
    /\ err = NoError
    /\ wire = << >> /\ sent = << >> /\ pdBase = 0
    /\ lastWrite = NoWrite /\ rlog = << >> /\ rdBase = 0
    /\ rotate = ""
    /\ call = NoCall /\ ret = NoReturn

\* a request starts with nothing written and nothing read
Begin ==
    /\ length' = 0 /\ err' = NoError
    /\ wire' = << >> /\ sent' = << >> /\ pdBase' = 0
    /\ lastWrite' = NoWrite /\ rlog' = << >> /\ rdBase' = 0

\* BrotherPt(): a new object, whose __initialize calls update_status
Construct ==
    /\ UNCHANGED fnvars /\ rotate' = ""
    /\ Idle
    /\ media_width' = None /\ media_type' = None
    /\ tape_color' = None /\ text_color' = None
    /\ op' = "init" /\ pc' = "us_invalidate"
    /\ data' = << >> /\ margin_px' = 0 /\ image' = NoImage
    /\ ci' = 0
    /\ Begin

\* the object exists once its constructor has returned
Constructed == ~(op = "init" /\ pc = "error")

CallUpdateStatus ==
    /\ UNCHANGED fnvars /\ rotate' = ""
    /\ Idle /\ Constructed
    /\ op' = "update_status" /\ pc' = "us_invalidate"
    /\ data' = << >> /\ margin_px' = 0 /\ image' = NoImage
    /\ ci' = 0
    /\ Begin
    /\ UNCHANGED status

CallPrintImage ==
    /\ UNCHANGED fnvars /\ rotate' = ""
    /\ Idle /\ Constructed
    /\ \E img \in Images, m \in Margins :
          /\ image' = img /\ margin_px' = m
    /\ op' = "print_image" /\ pc' = "us_invalidate"
    /\ data' = << >> /\ ci' = 0
    /\ Begin
    /\ UNCHANGED status

\* the values of --rotate the model calls do_print with
Rotations == {"auto", "0", "90"}

\* do_print: lines 43-83 of __main__.py; BrotherPt() of line 43 comes first
CallDoPrint ==
    /\ UNCHANGED fnvars
    /\ Idle
    /\ \E img \in Images, m \in Margins, r \in Rotations :
          /\ image' = img /\ margin_px' = m /\ rotate' = r
    /\ media_width' = None /\ media_type' = None
    /\ tape_color' = None /\ text_color' = None
    /\ op' = "do_print" /\ pc' = "us_invalidate"
    /\ data' = << >> /\ ci' = 0
    /\ Begin

\* do_print returns 1 after printing a message
Exit(what) == Exception("Exit", what, 1)

\* lines 49-63: the image after the rotation asked for
adjusted_image(img, rot, mw) ==
    IF rot = "auto" THEN make_fit(img, mw)
    ELSE IF rot = "0" THEN img
    ELSE transpose_rotate_90(img)

\* lines 46-71: what stops do_print before it rasterizes
do_print_error(img, rot, mw) ==
    IF mw \notin TapeWidths THEN Exception("KeyError", "margin", mw)
    ELSE IF adjusted_image(img, rot, mw) = NoImage THEN Exit("NoFit")
    ELSE IF adjusted_image(img, rot, mw).height # to_print_width(mw)
         THEN Exit("DimensionMismatch")
    ELSE IF img.mode \notin SupportedModes
         THEN Exception("AttributeError", "UnsupportedColorSpace", 0)
    ELSE NoError

\* lines 74-78: the margin do_print hands to print_data
do_print_margin(img, m) ==
    IF img.width + m < MINIMUM_TAPE_POINTS
    THEN MINIMUM_TAPE_POINTS - img.width
    ELSE m

\* printer.py lines 130-134: print_image warns and hands margin_px on as it is
print_image_margin(img, m) == m

\* print_data with the margin written before the advanced mode
print_data_commands_swapped(d, m) ==
    << enter_dynamic_command_mode,
       enable_status_notification,
       print_information(d),
       set_mode,
       margin_amount(m),
       set_advanced_mode,
       set_compression_mode >>
    \o gen_raster_commands(d)
    \o << print_with_feeding >>

\* the buffers print_data writes, in the order of lines 109-118
print_data_commands(d, m) ==
    << enter_dynamic_command_mode,
       enable_status_notification,
       print_information(d),
       set_mode,
       set_advanced_mode,
       margin_amount(m),
       set_compression_mode >>
    \o gen_raster_commands(d)
    \o << print_with_feeding >>

CallPrintData ==
    /\ UNCHANGED fnvars /\ rotate' = ""
    /\ Idle /\ Constructed
    /\ \E d \in RasterInputs, m \in Margins :
          /\ data' = d /\ margin_px' = m
    /\ op' = "print_data" /\ pc' = "pd_write"
    /\ image' = NoImage
    /\ Begin
    /\ ci' = 1
    /\ UNCHANGED status

WritePcs == {"us_invalidate", "us_initialize", "us_request", "pd_write"}

\* the `data` argument of the running __write
write_buffer ==
    CASE pc = "us_invalidate" -> invalidate
      [] pc = "us_initialize" -> initialize
      [] pc = "us_request"    -> status_information_request
      [] pc = "pd_write"      -> print_data_commands(data, margin_px)[ci]

\* data[length:]: all that is left of the buffer
chunk_rest(buf, len) == Slice(buf, len, Len(buf))

\* line 67: the chunk offered to dev.write, data[length:(length+0x40)]
chunk(buf, len) == Slice(buf, len, len + PACKET_SIZE)

\* length = dev.write(...): the count of the last call replaces the total
advance_overwrite(len, n) == n

\* line 67: length += dev.write(...)
advance(len, n) == len + n

\* line 68: the test that raises
write_timed_out(len) == len = 0

\* the program point reached when the running __write returns
after_write ==
    CASE pc = "us_invalidate" -> "us_initialize"
      [] pc = "us_initialize" -> "us_request"
      [] pc = "us_request"    -> "us_read"
      [] pc = "pd_write"      ->
            IF ci < Len(print_data_commands(data, margin_px))
            THEN "pd_write" ELSE "pd_poll"

\* one turn of the loop of __write, and the return of __write when it ends
WriteChunk ==
    /\ UNCHANGED << rotate, fnvars >>
    /\ pc \in WritePcs
    /\ \E n \in Accepts(Len(chunk(write_buffer, length))) :
          LET buf  == write_buffer
              off  == chunk(buf, length)
              len2 == advance(length, n)
          IN  /\ lastWrite' = [offset |-> length, offered |-> off, accepted |-> n]
              /\ wire' = wire \o SubSeq(off, 1, n)
              /\ IF write_timed_out(len2)
                 THEN /\ pc' = "error" /\ err' = IoWriteTimeout
                      /\ length' = len2
                      /\ UNCHANGED << sent, ci >>
                 ELSE IF len2 < Len(buf)
                 THEN /\ length' = len2
                      /\ UNCHANGED << pc, err, sent, ci >>
                 ELSE /\ sent' = Append(sent, buf)
                      /\ length' = 0
                      /\ pc' = after_write
                      /\ ci' = IF pc = "pd_write" THEN ci + 1 ELSE ci
                      /\ UNCHANGED err
    /\ UNCHANGED << status, op, data, margin_px, image, pdBase, rlog, rdBase >>

\* dev.write raises USBError, which __write does not catch
WriteRaises ==
    /\ UNCHANGED << rotate, fnvars >>
    /\ pc \in WritePcs
    /\ pc' = "error" /\ err' = Exception("USBError", "write", 0)
    /\ UNCHANGED << status, op, length, ci, data, margin_px, image, wire, sent,
                    pdBase, lastWrite, rlog, rdBase >>

\* __read(length): up to `length` bytes, or USBError turned into RuntimeError
ReadOutcomes(replies, n) ==
    { [ok |-> TRUE, data |-> r] : r \in { x \in replies : Len(x) <= n } }
    \cup { [ok |-> FALSE, data |-> << >>] }

read_raises_swallowed(o) == FALSE

\* __read, lines 73-76: a USBError of dev.read is raised as a RuntimeError
read_raises(o) == ~o.ok

IndexError == Exception("IndexError", "index out of range", 0)

\* an enumeration that takes any byte
is_member_any(enum, v) == TRUE

\* IntEnum(value): the value must be one of the members, else ValueError
is_member(enum, v) == v \in enum
ValueError(enum, v) == Exception("ValueError", enum, v)

\* lines 87-90 on a reply r: the four fields afterwards (old holds them
\* before) and the exception that interrupted the assignments, if any
parse_status(r, old) ==
    IF Len(r) <= MEDIA_WIDTH
    THEN [fields |-> old, e |-> IndexError]
    ELSE LET s1 == [old EXCEPT ![1] = r[MEDIA_WIDTH + 1]] IN
    IF Len(r) <= MEDIA_TYPE
    THEN [fields |-> s1, e |-> IndexError]
    ELSE IF ~is_member(MediaType, r[MEDIA_TYPE + 1])
    THEN [fields |-> s1, e |-> ValueError("MediaType", r[MEDIA_TYPE + 1])]
    ELSE LET s2 == [s1 EXCEPT ![2] = r[MEDIA_TYPE + 1]] IN
    IF Len(r) <= TAPE_COLOR_INFORMATION
    THEN [fields |-> s2, e |-> IndexError]
    ELSE IF ~is_member(TapeColor, r[TAPE_COLOR_INFORMATION + 1])
    THEN [fields |-> s2, e |-> ValueError("TapeColor", r[TAPE_COLOR_INFORMATION + 1])]
    ELSE LET s3 == [s2 EXCEPT ![3] = r[TAPE_COLOR_INFORMATION + 1]] IN
    IF Len(r) <= TEXT_COLOR_INFORMATION
    THEN [fields |-> s3, e |-> IndexError]
    ELSE IF ~is_member(TextColor, r[TEXT_COLOR_INFORMATION + 1])
    THEN [fields |-> s3, e |-> ValueError("TextColor", r[TEXT_COLOR_INFORMATION + 1])]
    ELSE [fields |-> [s3 EXCEPT ![4] = r[TEXT_COLOR_INFORMATION + 1]], e |-> NoError]

\* line 83: the loop of update_status goes on while the reply is empty
request_again(status_information) == Len(status_information) = 0

\* the read of update_status, and what follows it up to the next transfer:
\* the parse of lines 87-90 and, in print_image, lines 129-134
StatusRead ==
    /\ UNCHANGED << rotate, fnvars >>
    /\ pc = "us_read"
    /\ \E o \in ReadOutcomes(StatusReplies, STATUS_MESSAGE_LENGTH) :
          /\ (o.ok /\ request_again(o.data)) => Len(rlog) < MaxReads
          /\ rlog' = Append(rlog, o)
          /\ IF read_raises(o)
             THEN /\ pc' = "error" /\ err' = IoReadTimeout
                  /\ UNCHANGED << status, data, margin_px, ci, pdBase, rdBase >>
             ELSE IF request_again(o.data)
             THEN /\ pc' = "us_request"
                  /\ UNCHANGED << status, err, data, margin_px, ci, pdBase, rdBase >>
             ELSE LET p == parse_status(o.data, status) IN
                  /\ media_width' = p.fields[1]
                  /\ media_type' = p.fields[2]
                  /\ tape_color' = p.fields[3]
                  /\ text_color' = p.fields[4]
                  /\ IF p.e # NoError
                     THEN /\ pc' = "error" /\ err' = p.e
                          /\ UNCHANGED << data, margin_px, ci, pdBase, rdBase >>
                     ELSE IF op = "print_image"
                     THEN LET mw == p.fields[1] IN
                          IF prepare_error(image, mw) # NoError
                          THEN /\ pc' = "error" /\ err' = prepare_error(image, mw)
                               /\ UNCHANGED << data, margin_px, ci, pdBase, rdBase >>
                          ELSE /\ data' = raster_image(prepare_image(image, mw), mw)
                               /\ margin_px' =
                                     print_image_margin(prepare_image(image, mw), margin_px)
                               /\ pc' = "pd_write" /\ ci' = 1
                               /\ pdBase' = Len(sent)
                               /\ rdBase' = Len(rlog')
                               /\ UNCHANGED err
                     ELSE IF op = "do_print"
                     THEN LET mw == p.fields[1] IN
                          IF do_print_error(image, rotate, mw) # NoError
                          THEN /\ pc' = "error" /\ err' = do_print_error(image, rotate, mw)
                               /\ UNCHANGED << data, margin_px, ci, pdBase, rdBase >>
                          ELSE /\ data' = raster_image(adjusted_image(image, rotate, mw), mw)
                               /\ margin_px' =
                                     do_print_margin(adjusted_image(image, rotate, mw),
                                                     margin_px)
                               /\ pc' = "pd_write" /\ ci' = 1
                               /\ pdBase' = Len(sent)
                               /\ rdBase' = Len(rlog')
                               /\ UNCHANGED err
                     ELSE /\ pc' = "done"
                          /\ UNCHANGED << err, data, margin_px, ci, pdBase, rdBase >>
    /\ UNCHANGED << op, length, image, wire, sent, lastWrite >>

\* the loop of lines 119-125 without the absorbing read of line 124
poll_next_no_absorb(res) ==
    IF Len(res) > 0
    THEN IF Len(res) <= STATUS_TYPE THEN "error"
         ELSE IF res[STATUS_TYPE + 1] = PRINTING_COMPLETED THEN "done"
         ELSE "pd_poll"
    ELSE "pd_poll"

\* lines 121-122 on a reply res: where the polling loop goes next
poll_next(res) ==
    IF Len(res) > 0
    THEN IF Len(res) <= STATUS_TYPE THEN "error"
         ELSE IF res[STATUS_TYPE + 1] = PRINTING_COMPLETED THEN "pd_absorb"
         ELSE "pd_poll"
    ELSE "pd_poll"

\* one turn of the loop of lines 119-122
PollRead ==
    /\ UNCHANGED << rotate, fnvars >>
    /\ pc = "pd_poll"
    /\ \E o \in ReadOutcomes(PollReplies, POLL_READ_LENGTH) :
          /\ (o.ok /\ poll_next(o.data) = "pd_poll") => Len(rlog) < MaxReads
          /\ rlog' = Append(rlog, o)
          /\ IF read_raises(o)
             THEN pc' = "error" /\ err' = IoReadTimeout
             ELSE /\ pc' = poll_next(o.data)
                  /\ err' = IF poll_next(o.data) = "error" THEN IndexError ELSE err
    /\ UNCHANGED << status, op, length, ci, data, margin_px, image, wire, sent,
                    pdBase, lastWrite, rdBase >>

\* lines 124-125: the read that absorbs the phase change message
AbsorbRead ==
    /\ UNCHANGED << rotate, fnvars >>
    /\ pc = "pd_absorb"
    /\ \E o \in ReadOutcomes(AbsorbReplies, POLL_READ_LENGTH) :
          /\ rlog' = Append(rlog, o)
          /\ IF read_raises(o)
             THEN pc' = "error" /\ err' = IoReadTimeout
             ELSE pc' = "done" /\ UNCHANGED err
    /\ UNCHANGED << status, op, length, ci, data, margin_px, image, wire, sent,
                    pdBase, lastWrite, rdBase >>

Next ==
    \/ Construct
    \/ CallUpdateStatus
    \/ CallPrintImage
    \/ CallPrintData
    \/ CallDoPrint
    \/ WriteChunk
    \/ WriteRaises
    \/ StatusRead
    \/ PollRead
    \/ AbsorbRead

Spec == Init /\ [][Next]_vars

-----------------------------------------------------------------------------
(* The pure functions of cmd.py and raster.py, each called once on an      *)
(* argument drawn from a bounded set                                       *)

\* the longest raster buffer, in whole lines
MaxLines == 2

\* a line is four blocks of four bytes
Blocks ==
    { << 0, 0, 0, 0 >>, << 255, 255, 255, 255 >>, << 1, 2, 3, 4 >>,
      << 0, 0, 7, 7 >>, << 9, 0, 0, 0 >> }

Lines == { a \o b \o c \o e : a \in Blocks, b \in Blocks, c \in Blocks, e \in Blocks }

FewLines ==
    { Zeros(16),
      << 1, 1, 1, 2, 3, 3, 4, 0, 0, 0, 0, 0, 0, 0, 0, 5 >>,
      [i \in 1..16 |-> 255] }

\* what may follow the last whole line of a buffer
Tails == { << >>, << 0, 0, 0 >>, << 1, 2, 3, 4 >> }

RECURSIVE WholeLines(_)
WholeLines(n) ==
    IF n = 0 THEN { << >> }
    ELSE WholeLines(n - 1) \cup { b \o l : b \in WholeLines(n - 1), l \in FewLines }

RasterBuffers == Lines \cup { b \o t : b \in WholeLines(MaxLines), t \in Tails }

\* the images make_fit is called on
FitImages ==
    Images \cup
    { [width |-> w, height |-> h, mode |-> "1", pat |-> "checker", rot |-> 0] :
        w \in {24, 70, 128}, h \in {24, 70, 128} }

\* the prepared images raster_image is called on: as high as the tape prints
PreparedImages(mw) ==
    { [width |-> w, height |-> to_print_width(mw), mode |-> "1", pat |-> p, rot |-> 0] :
        w \in 1..3, p \in {"blank", "full", "checker", "left", "top"} }
    \cup
    { transpose_rotate_90(
        [width |-> to_print_width(mw), height |-> h, mode |-> "L", pat |-> p, rot |-> 0]) :
        h \in 1..2, p \in {"checker", "left", "top"} }

Call(fn, w, img, d) == [fn |-> fn, w |-> w, img |-> img, d |-> d]

Calls ==
    { Call("to_print_width", w, NoImage, << >>) : w \in TapeWidths }
    \cup { Call("gen_raster_commands", 0, NoImage, d) : d \in RasterBuffers }
    \cup { Call("make_fit", w, img, << >>) : w \in TapeWidths, img \in FitImages }
    \cup UNION { { Call("raster_image", w, img, << >>) : img \in PreparedImages(w) } :
                  w \in TapeWidths }

FnInit ==
    /\ call \in Calls /\ ret = NoReturn
    /\ media_width = None /\ media_type = None
    /\ tape_color = None /\ text_color = None
    /\ op = "call" /\ pc = "done" /\ length = 0 /\ ci = 0
    /\ data = << >> /\ margin_px = 0 /\ image = NoImage /\ err = NoError
    /\ wire = << >> /\ sent = << >> /\ pdBase = 0
    /\ lastWrite = NoWrite /\ rlog = << >> /\ rdBase = 0
    /\ rotate = ""

Session == << media_width, media_type, tape_color, text_color, op, pc, length, ci,
              data, margin_px, image, err, wire, sent, pdBase, lastWrite, rlog, rdBase,
              rotate >>

Calling(fn) == call.fn = fn /\ ~ret.done

ApplyToPrintWidth ==
    /\ Calling("to_print_width")
    /\ ret' = [NoReturn EXCEPT !.done = TRUE, !.n = to_print_width(call.w)]
    /\ UNCHANGED << call, Session >>

ApplyGenRasterCommands ==
    /\ Calling("gen_raster_commands")
    /\ ret' = [NoReturn EXCEPT !.done = TRUE, !.cmds = gen_raster_commands(call.d)]
    /\ UNCHANGED << call, Session >>

ApplyMakeFit ==
    /\ Calling("make_fit")
    /\ ret' = [NoReturn EXCEPT !.done = TRUE, !.img = make_fit(call.img, call.w)]
    /\ UNCHANGED << call, Session >>

ApplyRasterImage ==
    /\ Calling("raster_image")
    /\ ret' = [NoReturn EXCEPT !.done = TRUE, !.d = raster_image(call.img, call.w)]
    /\ UNCHANGED << call, Session >>

FnNext ==
    \/ ApplyToPrintWidth
    \/ ApplyGenRasterCommands
    \/ ApplyMakeFit
    \/ ApplyRasterImage

FnSpec == FnInit /\ [][FnNext]_vars

-----------------------------------------------------------------------------
(* What the claims speak of                                                *)

\* print_data has been entered in this request
InPrintData == ci > 0

\* the buffers print_data has finished writing, and the bytes the transport
\* has taken since print_data was entered
PdSent == SubSeq(sent, pdBase + 1, Len(sent))
PdWire == SubSeq(wire, Len(Flatten(SubSeq(sent, 1, pdBase))) + 1, Len(wire))

\* the reads issued since print_data was entered
PollLog == SubSeq(rlog, rdBase + 1, Len(rlog))

\* the part of the running __write's buffer the transport has taken
Taken == IF pc \in WritePcs THEN SubSeq(write_buffer, 1, length) ELSE << >>

\* the request was ended by an exception of dev.write itself
WriteRaised == pc = "error" /\ err.kind = "USBError"

NumLines == Len(gen_raster_commands(data))

\* the reads update_status has issued in this request
StatusLog == IF InPrintData THEN SubSeq(rlog, 1, rdBase) ELSE rlog

Last(log) == log[Len(log)]

\* a read that returned a message carrying status type t
HasStatusType(o, t) ==
    o.ok /\ Len(o.data) > STATUS_TYPE /\ o.data[STATUS_TYPE + 1] = t

Completed(o) == HasStatusType(o, PRINTING_COMPLETED)

\* a read that returned nothing, or a message with another status type
NotYetCompleted(o) ==
    o.ok /\ (Len(o.data) = 0 \/ (Len(o.data) > STATUS_TYPE /\ ~Completed(o)))

\* the place of the first "printing completed" in a log, 0 if there is none
FirstCompleted(log) ==
    IF \E i \in 1..Len(log) : Completed(log[i])
    THEN CHOOSE i \in 1..Len(log) :
            Completed(log[i]) /\ \A j \in 1..(i - 1) : ~Completed(log[j])
    ELSE 0

\* update_status has parsed a reply in this request: the status reply
HasStatusReply ==
    StatusLog # << >> /\ Last(StatusLog).ok /\ Len(Last(StatusLog).data) > 0
StatusReply == Last(StatusLog).data

\* this step is a read of update_status, and o is what the read returned
IsStatusRead == pc = "us_read" /\ Len(rlog') = Len(rlog) + 1

-----------------------------------------------------------------------------
(* C1: in every print session the transport receives enter raster mode,    *)
(* enable status notification, print information, set mode, set advanced   *)
(* mode, margin amount, set compression mode, then the raster line         *)
(* commands in column order, then print-and-feed exactly once: what has    *)
(* been written is always a prefix of that sequence, and it is the whole   *)
(* sequence once the session reads.                                        *)
C1_CommandOrder ==
    InPrintData =>
        /\ Len(PdSent) <= 8 + NumLines
        /\ \A k \in 1..Len(PdSent) :
              PdSent[k] =
                 CASE k = 1 -> enter_dynamic_command_mode
                   [] k = 2 -> enable_status_notification
                   [] k = 3 -> print_information(data)
                   [] k = 4 -> set_mode
                   [] k = 5 -> set_advanced_mode
                   [] k = 6 -> margin_amount(margin_px)
                   [] k = 7 -> set_compression_mode
                   [] k > 7 /\ k <= 7 + NumLines -> gen_raster_commands(data)[k - 7]
                   [] k = 8 + NumLines -> print_with_feeding
        /\ IsPrefix(Flatten(PdSent), PdWire)
        /\ pc = "pd_write" => Len(PdSent) < 8 + NumLines
        /\ (pc \in {"pd_poll", "pd_absorb", "done"} =>
               Len(PdSent) = 8 + NumLines /\ PdWire = Flatten(PdSent))

\* a session of print_image with two raster lines has run to its end
C1_Witness ==
    pc = "done" /\ op = "print_image" /\ NumLines = 2 /\ Len(PdSent) = 10

(* C8: with a transport that takes part of what it is offered, the bytes   *)
(* taken are the buffers already written followed by the first `length`    *)
(* bytes of the buffer being written, in order and without a gap or a      *)
(* repeat; a buffer counts as written only when all of it was taken, and   *)
(* print_data is at command ci only when the ci - 1 before it were.  (A    *)
(* write that dev.write ends with an exception leaves a part of its buffer *)
(* taken; it never returns.)                                               *)
C8_WriteIsExact ==
    /\ ~WriteRaised => wire = Flatten(sent) \o Taken
    /\ WriteRaised => IsPrefix(Flatten(sent), wire)
    /\ pc \in WritePcs => length < Len(write_buffer)
    /\ (InPrintData /\ pc = "pd_write") => Len(PdSent) = ci - 1

\* the second raster line is being written and part of it has been taken
C8_Witness ==
    /\ pc = "pd_write" /\ ci = 9 /\ NumLines >= 2
    /\ length > 0 /\ lastWrite.accepted < Len(lastWrite.offered)

(* C2: when the status reply read at the start of a print reports media    *)
(* type "no media" or "incompatible", the print fails and neither a setup  *)
(* command nor a raster command is written.                                *)
C2_NoMediaRefused ==
    ( /\ op = "print_image" /\ HasStatusReply
      /\ Len(StatusReply) > MEDIA_TYPE
      /\ StatusReply[MEDIA_TYPE + 1] \in {NO_MEDIA, INCOMPATIBLE_TAPE} )
    => (pc = "error" /\ ~InPrintData)

(* C3: after print-and-feed the loop reads again while what it read is     *)
(* empty or carries another status type than "printing completed"; after   *)
(* the first "printing completed" it reads exactly once more, and when     *)
(* that read returns the session is completed, with nothing read or        *)
(* written after it.                                                       *)
C3_PollThenAbsorb ==
    InPrintData =>
        LET f == FirstCompleted(PollLog)
            n == Len(PollLog)
        IN  /\ pc = "pd_write" => n = 0
            /\ (n > 0 /\ f = 0 /\ NotYetCompleted(Last(PollLog))) => pc = "pd_poll"
            /\ pc = "pd_poll" => \A i \in 1..n : NotYetCompleted(PollLog[i])
            /\ pc = "pd_absorb" <=> (f > 0 /\ f = n)
            /\ f > 0 => n <= f + 1
            /\ (f > 0 /\ n = f + 1 /\ Last(PollLog).ok) => pc = "done"
            /\ pc = "done" =>
                  /\ f > 0 /\ n = f + 1
                  /\ Last(PdSent) = print_with_feeding
                  /\ wire = Flatten(sent)

\* a session that read nothing, then another status, then "printing
\* completed", then the absorbed message, and is completed
C3_Witness ==
    /\ pc = "done" /\ InPrintData /\ Len(PollLog) = 4
    /\ Len(PollLog[1].data) = 0
    /\ HasStatusType(PollLog[2], ERROR_OCCURRED)
    /\ Completed(PollLog[3])

(* C4: a reply with status type "error occurred" received while polling    *)
(* for completion ends the session with an error.                          *)
C4_ErrorStatusEndsSession ==
    ( /\ InPrintData /\ PollLog # << >>
      /\ FirstCompleted(PollLog) = 0
      /\ HasStatusType(Last(PollLog), ERROR_OCCURRED) )
    => pc = "error"

(* C5: polling ends after a bounded number of attempts: when the device    *)
(* has answered MaxReads reads with nothing or with other status types,    *)
(* the session has ended with a timeout error.                             *)
C5_PollingBounded ==
    ( /\ InPrintData /\ Len(PollLog) >= MaxReads
      /\ \A i \in 1..Len(PollLog) : NotYetCompleted(PollLog[i]) )
    => (pc = "error" /\ err = IoReadTimeout)

(* C6: update_status writes invalidate, initialize, then the status        *)
(* request, and repeats the request a bounded number of times: when        *)
(* MaxReads reads have returned nothing, it has failed with a timeout.     *)
C6_StatusRetryBounded ==
    /\ \A k \in 1..(IF InPrintData THEN pdBase ELSE Len(sent)) :
          sent[k] = CASE k = 1 -> invalidate
                      [] k = 2 -> initialize
                      [] OTHER -> status_information_request
    /\ ( /\ ~InPrintData /\ Len(StatusLog) >= MaxReads
         /\ \A i \in 1..Len(StatusLog) :
               StatusLog[i].ok /\ Len(StatusLog[i].data) = 0 )
       => (pc = "error" /\ err = IoReadTimeout)

(* C7: whenever the transport takes no byte of a non-empty chunk, the      *)
(* write raises and the session stops.                                     *)
C7_ZeroWriteFatal ==
    (Len(lastWrite.offered) > 0 /\ lastWrite.accepted = 0)
    => (pc = "error" /\ err = IoWriteTimeout)

(* C9: a status reply that is not empty and not 32 bytes long makes        *)
(* update_status fail, and no cached status field is taken from it.        *)
C9_ShortReadRejected ==
    [][ IsStatusRead =>
          LET o == Last(rlog') IN
          (o.ok /\ Len(o.data) \notin {0, STATUS_MESSAGE_LENGTH})
          => (pc' = "error" /\ status' = status) ]_vars

(* C10: a status reply whose media type, tape colour or text colour byte   *)
(* is no member of its enumeration makes update_status fail with a         *)
(* ValueError naming the enumeration and the byte; the field keeps its     *)
(* value, and a field only ever takes the byte the reply carries for it.   *)
C10_UnknownEnumFails ==
    [][ IsStatusRead =>
          LET o  == Last(rlog')
              r  == o.data
              mt == r[MEDIA_TYPE + 1]
              tc == r[TAPE_COLOR_INFORMATION + 1]
              xc == r[TEXT_COLOR_INFORMATION + 1]
          IN  (o.ok /\ Len(r) > 0) =>
              /\ (Len(r) > MEDIA_TYPE /\ mt \notin MediaType)
                 => /\ pc' = "error" /\ err' = ValueError("MediaType", mt)
                    /\ media_type' = media_type
              /\ ( /\ Len(r) > TAPE_COLOR_INFORMATION
                   /\ mt \in MediaType /\ tc \notin TapeColor )
                 => /\ pc' = "error" /\ err' = ValueError("TapeColor", tc)
                    /\ tape_color' = tape_color
              /\ ( /\ Len(r) > TEXT_COLOR_INFORMATION
                   /\ mt \in MediaType /\ tc \in TapeColor /\ xc \notin TextColor )
                 => /\ pc' = "error" /\ err' = ValueError("TextColor", xc)
                    /\ text_color' = text_color
              /\ media_type' # media_type => (media_type' = mt /\ mt \in MediaType)
              /\ tape_color' # tape_color => (tape_color' = tc /\ tc \in TapeColor)
              /\ text_color' # text_color => (text_color' = xc /\ xc \in TextColor)
      ]_vars

\* update_status has failed on a text colour byte outside TextColor, and
\* the text colour of an earlier reply is still cached
C10_Witness ==
    /\ pc = "error" /\ err = ValueError("TextColor", 153)
    /\ text_color = 8 /\ tape_color = 4

-----------------------------------------------------------------------------
(* Claims about the pure functions                                         *)

Returned(fn) == call.fn = fn /\ ret.done

\* C11: for every tape width w of 4, 6, 9, 12, 18 and 24 mm, the printable
\* height to_print_width(w) is positive and, with the margin of w on both
\* sides, fills the 128 pins of the print head
C11_PrintWidthFillsHead ==
    Returned("to_print_width") =>
        /\ call.w \in TapeWidths
        /\ ret.n + 2 * margin(call.w) = PRINT_HEAD_PINS
        /\ ret.n > 0

\* to_print_width has returned for each of the six tape widths; here 4 mm
C11_Witness ==
    Returned("to_print_width") /\ call.w = 4 /\ ret.n = 24

\* the k-th 16-byte line of a buffer, k from 1
LineOf(d, k) == Slice(d, (k - 1) * LINE_LENGTH_BYTES, k * LINE_LENGTH_BYTES)

\* the PackBits decoder of the printer: a header n below 128 copies the next
\* n + 1 bytes, a header above 128 repeats the next byte 257 - n times
RECURSIVE packbits_decode(_)
packbits_decode(p) ==
    IF Len(p) = 0 THEN << >>
    ELSE IF p[1] < 128
         THEN IF Len(p) < p[1] + 2 THEN << -1 >>
              ELSE SubSeq(p, 2, p[1] + 2) \o packbits_decode(SubSeq(p, p[1] + 3, Len(p)))
    ELSE IF p[1] = 128 THEN packbits_decode(Tail(p))
    ELSE IF Len(p) < 2 THEN << -1 >>
         ELSE [i \in 1..(257 - p[1]) |-> p[2]] \o packbits_decode(SubSeq(p, 3, Len(p)))

\* the bytes after the command byte and the two length bytes
Payload(cmd) == SubSeq(cmd, 4, Len(cmd))

\* C12: gen_raster_commands emits one command per 16-byte line, in the order
\* of the lines; the command of a line is the zero-line command 0x5A exactly
\* when its 16 bytes are all zero, so a zero line is never sent as 0x47
C12_OneCommandPerLine ==
    Returned("gen_raster_commands") =>
        /\ Len(ret.cmds) * LINE_LENGTH_BYTES >= Len(call.d)
        /\ (Len(ret.cmds) - 1) * LINE_LENGTH_BYTES < Len(call.d) \/ Len(call.d) = 0
        /\ Len(call.d) = 0 => ret.cmds = << >>
        /\ \A k \in 1..Len(ret.cmds) :
              LET line == LineOf(call.d, k)
              IN  /\ ret.cmds[k] # zero_cmd =>
                        packbits_decode(Payload(ret.cmds[k])) = line
                  /\ Len(line) = LINE_LENGTH_BYTES =>
                        /\ ret.cmds[k] = zero_cmd <=> (\A i \in 1..16 : line[i] = 0)
                        /\ ret.cmds[k] # zero_cmd => ret.cmds[k][1] = 71

\* two lines, the first all zero and the second not
C12_Witness ==
    /\ Returned("gen_raster_commands")
    /\ Len(call.d) = 32 /\ Len(ret.cmds) = 2
    /\ ret.cmds[1] = << 90 >> /\ ret.cmds[2][1] = 71

\* C13: decoding the payload of the raster data command of a non-zero
\* 16-byte line gives back the 16 bytes of the line
C13_PayloadDecodesToLine ==
    Returned("gen_raster_commands") =>
        \A k \in 1..Len(ret.cmds) :
            LET line == LineOf(call.d, k)
            IN  (Len(line) = LINE_LENGTH_BYTES /\ line # Zeros(LINE_LENGTH_BYTES)) =>
                    packbits_decode(Payload(ret.cmds[k])) = line

\* a line with a run that is packed and bytes that are copied
C13_Witness ==
    /\ Returned("gen_raster_commands")
    /\ call.d = << 1, 2, 3, 4, 0, 0, 0, 0, 0, 0, 0, 0, 9, 0, 0, 0 >>
    /\ Len(ret.cmds) = 1 /\ Len(ret.cmds[1]) < 3 + 16

\* C14: a raster data command is the byte 0x47, the payload length in two
\* bytes, low byte first, and then the payload of exactly that many bytes
C14_LengthIsPayloadLength ==
    Returned("gen_raster_commands") =>
        \A k \in 1..Len(ret.cmds) :
            LET cmd == ret.cmds[k]
            IN  cmd # zero_cmd =>
                  /\ Len(cmd) >= 3 /\ cmd[1] = 71
                  /\ cmd[2] + 256 * cmd[3] = Len(cmd) - 3
                  /\ cmd[2] < 256 /\ cmd[3] < 256
                  /\ Payload(cmd) = packbits_encode(LineOf(call.d, k))

\* a line of sixteen equal bytes: the payload is two bytes, not sixteen
C14_Witness ==
    /\ Returned("gen_raster_commands")
    /\ call.d = [i \in 1..16 |-> 255]
    /\ ret.cmds = << << 71, 2, 0, 241, 255 >> >>

\* C15: make_fit accepts an image when its width or its height is the print
\* width P of the tape; it returns the image as it is when its height is P,
\* turned by 90 degrees when only its width is P, and nothing when neither
\* is P; the height of a returned image is P
C15_MakeFit ==
    Returned("make_fit") =>
        LET P   == to_print_width(call.w)
            img == call.img
            out == ret.img
        IN  /\ out # NoImage <=> (img.width = P \/ img.height = P)
            /\ img.height = P => out = img
            /\ (img.height # P /\ img.width = P) =>
                  /\ out.width = img.height /\ out.height = img.width
                  /\ out.rot = 90 /\ out.pat = img.pat /\ out.mode = img.mode
            /\ out # NoImage => out.height = P

\* a 70 x 2 image on 12 mm tape, whose print width is 70, comes back turned
C15_Witness ==
    /\ Returned("make_fit") /\ call.w = 12
    /\ call.img.width = 70 /\ call.img.height = 2
    /\ ret.img.width = 2 /\ ret.img.height = 70 /\ ret.img.rot = 90

-----------------------------------------------------------------------------
(* Claims about the two ways to print an image                             *)

PrintsImage == op \in {"print_image", "do_print"}

\* the dots of the margin amount command print_data has written
SentMargin == PdSent[6][4] + 256 * PdSent[6][5]

\* C16: on both ways to print an image, print_image and do_print, the
\* margin M written in the margin amount command and the width w of the
\* image that is rasterized satisfy w + M >= 174
C16_MarginNormalized ==
    (PrintsImage /\ InPrintData /\ Len(PdSent) >= 6) =>
        (Len(data) \div LINE_LENGTH_BYTES) + SentMargin >= MINIMUM_TAPE_POINTS

\* an error of the image the caller gave: it fits neither way, its height
\* is not the print width, or its colour space is not supported
RasterError(e) == e.kind = "Exit" \/ e.kind = "AttributeError"

\* C17: when print_image or do_print fails with an error of the image, the
\* request has written no byte and issued no read
C17_RasterErrorBeforeIO ==
    (PrintsImage /\ pc = "error" /\ RasterError(err)) =>
        (wire = << >> /\ rlog = << >>)

\* the line count of the print information command print_data has written
AnnouncedLines ==
    PdSent[3][8] + 256 * PdSent[3][9] + 65536 * PdSent[3][10] + 16777216 * PdSent[3][11]

\* C18: once print-and-feed is written, the line count of the print
\* information command is the number of line commands written between the
\* seven setup commands and print-and-feed, whatever the length of the
\* buffer
C18_LineCountMatches ==
    (InPrintData /\ Len(PdSent) >= 8 /\ Last(PdSent) = print_with_feeding) =>
        AnnouncedLines = Len(PdSent) - 8

\* bit k, counted from the most significant bit of the first byte, of the
\* c-th sixteen bytes of a buffer
LineBit(d, c, k) ==
    (d[c * LINE_LENGTH_BYTES + (k \div 8) + 1] \div (2 ^ (7 - (k % 8)))) % 2

\* C19: an image as high as the print width of the tape is rasterized to 16
\* bytes per column; bit k of a column, most significant bit first, is set
\* exactly when it lies inside the image, margin <= k < margin + height, and
\* the pixel (column, k - margin) is ink
C19_ColumnBits ==
    Returned("raster_image") =>
        LET img == call.img
            mg  == margin(call.w)
        IN  /\ img.height = to_print_width(call.w)
            /\ Len(ret.d) = LINE_LENGTH_BYTES * img.width
            /\ \A c \in 0..(img.width - 1), k \in 0..(PRINT_HEAD_PINS - 1) :
                  LineBit(ret.d, c, k) = 1 <=>
                      /\ mg <= k /\ k < mg + img.height
                      /\ getpixel(img, c, k - mg)

\* a column of 12 mm tape whose only ink is its first row: bit 29 alone
C19_Witness ==
    /\ Returned("raster_image") /\ call.w = 12
    /\ call.img.pat = "top" /\ call.img.rot = 0 /\ call.img.width = 1
    /\ ret.d = << 0, 0, 0, 4, 0, 0, 0, 0, 0, 0, 0, 0, 0, 0, 0, 0 >>

\* a read of this request has raised
ReadFailed == \E i \in 1..Len(rlog) : ~rlog[i].ok

\* C20: a read that fails with a transport error, in update_status or while
\* print_data polls, ends the request with the read error; nothing is
\* written or read until another request begins
C20_ReadErrorEnds ==
    [][ ReadFailed =>
          /\ pc = "error" /\ err = IoReadTimeout
          /\ ~Last(rlog).ok
          /\ wire' = << >> /\ rlog' = << >> ]_vars

\* the second read of the polling loop has failed
C20_Witness ==
    /\ InPrintData /\ pc = "error" /\ err = IoReadTimeout
    /\ Len(PollLog) = 2 /\ PollLog[1].ok /\ ~PollLog[2].ok

-----------------------------------------------------------------------------
(* Claims about single transfers and about the cached status               *)

\* this step is a call of dev.write that returned
IsWriteCall == pc \in WritePcs /\ ~(pc' = "error" /\ err'.kind = "USBError")

\* the bytes the transport has taken of the buffer being written
AcceptedOfBuffer == Len(wire) - Len(Flatten(sent))

\* C21: every call of dev.write offers at most 64 bytes, and the bytes it
\* offers are those of the buffer that start at the number of bytes the
\* transport has taken of that buffer so far
C21_ChunkAtAcceptedOffset ==
    [][ IsWriteCall =>
          LET acc == AcceptedOfBuffer
              buf == write_buffer
              w   == lastWrite'
          IN  /\ Len(w.offered) <= PACKET_SIZE
              /\ Len(w.offered) > 0
              /\ w.offset = acc
              /\ w.offered = SubSeq(buf, acc + 1, Min(acc + PACKET_SIZE, Len(buf)))
              /\ w.accepted <= Len(w.offered)
              /\ Len(wire') = Len(wire) + w.accepted ]_vars

\* the 100 bytes of invalidate: after 32 and then 64 bytes were taken, the
\* third call offers the last 4 bytes from offset 96
C21_Witness ==
    /\ lastWrite.offset = 96 /\ Len(lastWrite.offered) = 4
    /\ sent = << >> \/ Last(sent) = invalidate

\* the four fields a whole status reply carries
FieldsOf(r) ==
    << r[MEDIA_WIDTH + 1], r[MEDIA_TYPE + 1],
       r[TAPE_COLOR_INFORMATION + 1], r[TEXT_COLOR_INFORMATION + 1] >>

\* C22: the four cached status fields always come from one status reply:
\* they are all unset, or they are the four bytes of one reply the device
\* can send, never some fields of one reply with fields of another
C22_StatusFromOneReply ==
    \/ status = << None, None, None, None >>
    \/ \E r \in StatusReplies :
          Len(r) > TEXT_COLOR_INFORMATION /\ status = FieldsOf(r)

====
